---- MODULE Spec2Model ----
(***************************************************************************)
(* Model of obdstuff.py: the OBD-II connection manager                     *)
(* (OBDConnectionManager), its background reconnection thread, the         *)
(* multithreaded port finder (find_obd_port_multithreaded / test_port)     *)
(* and the callers of send_command and close.                              *)
(*                                                                         *)
(* Every thread is a small program counter machine; one action is one      *)
(* access to shared state (an attribute of the manager, the lock, the      *)
(* stop event, the result dict, the serial transport).                     *)
(***************************************************************************)
EXTENDS Integers, Sequences, FiniteSets, TLC

\* ------------------------------------------------------------------ bounds
MaxPorts == 2          \* most endpoints comports() lists for a direct call
MaxMgrPorts == 1       \* most endpoints it lists for the background thread
NumCallers == 2        \* threads that call send_command
MaxLeaked == 1         \* Serial objects dropped while open that are tracked
MaxTokens == 4         \* most tokens in a response handed to the parser

Ports == 1..MaxPorts
Callers == 1..NumCallers
MaxHandles == MaxLeaked + 2
Handles == 1..MaxHandles
None == 0              \* Python's None, for a port or a Serial reference

\* ------------------------------------------------------ bytes and strings
\* Bytes the adapter can send: a printable character, a carriage return
\* (whitespace) and a byte that is not valid UTF-8.
Printable == "O"
CR == "CR"
BadByte == "XX"
RawSet == { <<>>, <<CR>>, <<Printable>>, <<BadByte, Printable, CR>> }

\* bytes.decode('utf-8', errors='ignore'): undecodable bytes are dropped
Decode(bytes) == SelectSeq(bytes, LAMBDA b : b # BadByte)

LF == "LF"
SP == " "

\* str.isspace() on the characters of the model
IsSpace(ch) == ch \in {CR, LF, SP}

RECURSIVE LStrip(_)
LStrip(s) == IF s # <<>> /\ IsSpace(Head(s)) THEN LStrip(Tail(s)) ELSE s

RECURSIVE RStrip(_)
RStrip(s) ==
    IF s # <<>> /\ IsSpace(s[Len(s)]) THEN RStrip(SubSeq(s, 1, Len(s) - 1)) ELSE s

\* str.strip()
Strip(s) == RStrip(LStrip(s))

\* read_all().decode('utf-8', errors='ignore').strip()
ReadText(raw) == Strip(Decode(raw))

Sentinel == [tag |-> "sentinel", text |-> <<>>]
NoRet == [tag |-> "none", text |-> <<>>]
Response(t) == [tag |-> "response", text |-> t]

\* ------------------------------------------------- parse_obd_response
\* Text is a sequence of one-character strings.

\* str.replace(ch, "")
Remove(s, ch) == SelectSeq(s, LAMBDA x : x # ch)

\* length of the leading run of non-whitespace
RECURSIVE WordLen(_)
WordLen(s) == IF s = <<>> \/ IsSpace(Head(s)) THEN 0 ELSE 1 + WordLen(Tail(s))

\* str.split(): the maximal runs of non-whitespace characters
RECURSIVE Split(_)
Split(s) ==
    LET t == LStrip(s)
        n == WordLen(t)
    IN  IF t = <<>> THEN <<>>
        ELSE <<SubSeq(t, 1, n)>> \o Split(SubSeq(t, n + 1, Len(t)))

UpperHex == <<"0", "1", "2", "3", "4", "5", "6", "7", "8", "9",
              "A", "B", "C", "D", "E", "F">>
LowerHex == <<"a", "b", "c", "d", "e", "f">>

IsHexDigit(ch) ==
    \/ \E i \in DOMAIN UpperHex : UpperHex[i] = ch
    \/ \E i \in DOMAIN LowerHex : LowerHex[i] = ch

\* value of a hexadecimal digit, either case
DigitVal(ch) ==
    IF \E i \in DOMAIN UpperHex : UpperHex[i] = ch
    THEN (CHOOSE i \in DOMAIN UpperHex : UpperHex[i] = ch) - 1
    ELSE (CHOOSE i \in DOMAIN LowerHex : LowerHex[i] = ch) + 9

RECURSIVE DigitsVal(_)
DigitsVal(s) ==
    IF s = <<>> THEN 0
    ELSE DigitsVal(SubSeq(s, 1, Len(s) - 1)) * 16 + DigitVal(s[Len(s)])

\* int(hex_str, 16): an optional sign, an optional 0x/0X prefix, then one
\* or more hexadecimal digits of either case and of any number; anything
\* else raises ValueError.  (The texts of the model hold no underscore and
\* no inner whitespace, which int() also treats specially.)
hex_to_decimal(hex_str) ==
    LET signed == hex_str # <<>> /\ Head(hex_str) \in {"+", "-"}
        s1 == IF signed THEN Tail(hex_str) ELSE hex_str
        prefixed == Len(s1) >= 2 /\ s1[1] = "0" /\ s1[2] \in {"x", "X"}
        digits == IF prefixed THEN SubSeq(s1, 3, Len(s1)) ELSE s1
        ok == digits # <<>> /\ \A i \in DOMAIN digits : IsHexDigit(digits[i])
        mag == IF ok THEN DigitsVal(digits) ELSE 0
    IN  [ok |-> ok,
         val |-> IF signed /\ Head(hex_str) = "-" THEN 0 - mag ELSE mag]

\* str(n) for a natural number
RECURSIVE NatStr(_)
NatStr(n) ==
    IF n < 10 THEN <<UpperHex[n + 1]>>
    ELSE NatStr(n \div 10) \o <<UpperHex[(n % 10) + 1]>>

\* str(n) for an int, as the f-strings of lines 37 and 44 format it
IntStr(n) == IF n < 0 THEN <<"-">> \o NatStr(0 - n) ELSE NatStr(n)

\* str(n / 4) for an int n: the float of line 29 as the f-string of line 30
\* formats it (positional notation, at least one fractional digit)
QuarterStr(n) ==
    LET a == IF n < 0 THEN 0 - n ELSE n
        frac == CASE a % 4 = 0 -> <<"0">>
                  [] a % 4 = 1 -> <<"2", "5">>
                  [] a % 4 = 2 -> <<"5">>
                  [] a % 4 = 3 -> <<"7", "5">>
    IN  (IF n < 0 THEN <<"-">> ELSE <<>>) \o NatStr(a \div 4) \o <<".">> \o frac

\* a dict entry: None, or a str
Unset == [tag |-> "None", text |-> <<>>]
Str(t) == [tag |-> "str", text |-> t]

\* line 22: response.strip().replace("\r", "").replace("\n", "")
Normalise(response) == Remove(Remove(Strip(response), CR), LF)

\* the message of the ValueError that int() raises for a token
ValueErrorText(tok) ==
    <<"invalid literal for int() with base 16: ", "'">> \o tok \o <<"'">>

\* faulty variant: the handler records nothing
ExceptHandler_Swallow(result, pid, tok) == result

\* lines 53-54: except Exception as e: result["error"] = f"Error parsing
\* PID {pid}: {e}"
ExceptHandler(result, pid, tok) ==
    [result EXCEPT
        !.error = Str(<<"Error parsing PID ", pid, ": ">> \o ValueErrorText(tok))]

\* faulty variant: the two bytes the other way round
RpmTimes4_BytesSwapped(A, B) == (B * 256) + A

\* line 29: rpm = ((A * 256) + B) / 4, kept as four times its value
RpmTimes4(A, B) == (A * 256) + B

\* faulty variant: the offset left out
CoolantTemp_NoOffset(D) == D

\* line 43: temp = hex_to_decimal(parts[2]) - 40
CoolantTemp(D) == D - 40

\* faulty variant: the message does not name the pid
UnsupportedText_NoPid(pid) == <<"Unsupported PID">>

\* line 51: f"Unsupported PID: {pid}"
UnsupportedText(pid) == <<"Unsupported PID: ", pid>>

\* lines 10-56.  parts[k] of the source is parts[k + 1] here.
parse_obd_response(pid, response) ==
    LET parts == Split(Normalise(response))
        result == [pid |-> pid, raw_response |-> response,
                   value |-> Unset, error |-> Unset]
        Value(t) == [result EXCEPT !.value = Str(t)]
        Error(t) == [result EXCEPT !.error = Str(t)]
    IN  IF pid = "010C"
        THEN IF Len(parts) >= 4 /\ parts[2] = <<"0", "C">>
             THEN LET A == hex_to_decimal(parts[3])
                      B == hex_to_decimal(parts[4])
                  IN  IF ~A.ok THEN ExceptHandler(result, pid, parts[3])
                      ELSE IF ~B.ok THEN ExceptHandler(result, pid, parts[4])
                      ELSE Value(QuarterStr(RpmTimes4(A.val, B.val))
                                 \o <<" ", "R", "P", "M">>)
             ELSE Error(<<"No valid RPM data.">>)
        ELSE IF pid = "010D"
        THEN IF Len(parts) >= 3 /\ parts[2] = <<"0", "D">>
             THEN LET speed == hex_to_decimal(parts[3])
                  IN  IF ~speed.ok THEN ExceptHandler(result, pid, parts[3])
                      ELSE Value(IntStr(speed.val) \o <<" ", "k", "m", "/", "h">>)
             ELSE Error(<<"No valid speed data.">>)
        ELSE IF pid = "0105"
        THEN IF Len(parts) >= 3 /\ parts[2] = <<"0", "5">>
             THEN LET temp == hex_to_decimal(parts[3])
                  IN  IF ~temp.ok THEN ExceptHandler(result, pid, parts[3])
                      ELSE Value(IntStr(CoolantTemp(temp.val))
                                 \o <<" ", "°", "C">>)
             ELSE Error(<<"No valid coolant temperature data.">>)
        ELSE Error(UnsupportedText(pid))

\* no call of parse_obd_response has been made
NoResult == [pid |-> "", raw_response |-> <<>>, value |-> Unset, error |-> Unset]
NoParse == [pid |-> "", response |-> <<>>, result |-> NoResult, pc |-> "idle"]

\* ------------------------------------------------------------------ state
VARIABLES
    keep_running,       \* self.keep_running
    serial_connection,  \* self.serial_connection: None or a Serial object
    obd_port,           \* self.obd_port
    lock,               \* self.lock: None or the caller that holds it
    sessOpen,           \* Serial objects opened for the manager with is_open
    supPc,              \* position of the thread running _maintain_connection
    supTmp,             \* the Serial just constructed at line 77, not yet stored
    closePc,            \* position of the thread calling close()
    pc,                 \* position of each send_command caller
    ret,                \* what each caller's last send_command returned
    dpc,                \* position inside find_obd_port_multithreaded
    ports,              \* len(ports) of the current round
    idx,                \* loop index of the start loop / the join loop
    result,             \* result["found"]
    stop_event,         \* stop_event.is_set()
    ppc,                \* position of each test_port thread
    presp,              \* test_port's local: response
    pser,               \* test_port's local ser: "unbound", "open", "closed"
    foundLog,           \* history: the writes of result["found"], in order
    parse,              \* a call of parse_obd_response: its arguments and
                        \* the dict it returns
    closedOnce,         \* history: a close() call has returned
    faulted             \* history: a session write/read raised and no Serial
                        \* has been stored since

mgrVars == <<keep_running, serial_connection, obd_port, lock, sessOpen, supPc,
             supTmp, closePc, pc, ret, faulted, closedOnce>>
discVars == <<dpc, ports, idx, result, stop_event, ppc, presp, pser, foundLog>>
vars == <<mgrVars, discVars, parse>>

\* ------------------------------------------------------------------- Init
\* find_obd_port_multithreaded has not been entered
DiscIdle ==
    /\ dpc = "idle"
    /\ ports = 0
    /\ idx = 0
    /\ result = None
    /\ stop_event = FALSE
    /\ ppc = [p \in Ports |-> "unstarted"]
    /\ presp = [p \in Ports |-> <<>>]
    /\ pser = [p \in Ports |-> "unbound"]
    /\ foundLog = <<>>

\* OBDConnectionManager.__init__: the thread is started and about to test
\* keep_running for the first time.
Init ==
    /\ keep_running = TRUE
    /\ serial_connection = None
    /\ obd_port = None
    /\ lock = None
    /\ sessOpen = {}
    /\ supPc = "while"
    /\ supTmp = None
    /\ closePc = "idle"
    /\ pc = [c \in Callers |-> "idle"]
    /\ ret = [c \in Callers |-> NoRet]
    /\ faulted = FALSE
    /\ closedOnce = FALSE
    /\ parse = NoParse
    /\ DiscIdle

\* ------------------------------------------------- test_port (lines 107-122)
\* A Serial object dropped while open is closed only if the runtime
\* finalizes it; the code does not close it.
DroppedState == {"open", "closed"}

\* line 108: if stop_event.is_set(): return
ProbeEntry(p) ==
    /\ ppc[p] = "entry"
    /\ ppc' = [ppc EXCEPT ![p] = IF stop_event THEN "done" ELSE "open"]
    /\ UNCHANGED <<mgrVars, dpc, ports, idx, result, stop_event, presp,
                   pser, foundLog, parse>>

\* line 111: ser = serial.Serial(port.device, ...); a failure to open is
\* swallowed by the except of line 121 and ser stays unbound.
ProbeOpen(p) ==
    /\ ppc[p] = "open"
    /\ \E ok \in BOOLEAN :
        IF ok
        THEN /\ pser' = [pser EXCEPT ![p] = "open"]
             /\ ppc' = [ppc EXCEPT ![p] = "write"]
        ELSE /\ pser' = pser
             /\ ppc' = [ppc EXCEPT ![p] = "done"]
    /\ UNCHANGED <<mgrVars, dpc, ports, idx, result, stop_event, presp,
                   foundLog, parse>>

\* lines 121-122 reached from line 113 or 115: except Exception: pass.
\* ser.close() of line 120 is skipped.
ProbeFault(p) ==
    /\ \E st \in DroppedState : pser' = [pser EXCEPT ![p] = st]
    /\ ppc' = [ppc EXCEPT ![p] = "done"]
    /\ presp' = presp

\* lines 113-114: ser.write(b'ATZ\r'); time.sleep(1)
ProbeWrite(p) ==
    /\ ppc[p] = "write"
    /\ \/ /\ ppc' = [ppc EXCEPT ![p] = "read"]
          /\ UNCHANGED <<pser, presp>>
       \/ ProbeFault(p)
    /\ UNCHANGED <<mgrVars, dpc, ports, idx, result, stop_event, foundLog, parse>>

\* line 115: response = ser.read_all().decode('utf-8', errors='ignore').strip()
ProbeRead(p) ==
    /\ ppc[p] = "read"
    /\ \/ \E raw \in RawSet :
            /\ presp' = [presp EXCEPT ![p] = ReadText(raw)]
            /\ ppc' = [ppc EXCEPT ![p] = "check"]
            /\ UNCHANGED <<pser>>
       \/ ProbeFault(p)
    /\ UNCHANGED <<mgrVars, dpc, ports, idx, result, stop_event, foundLog, parse>>

\* faulty variant: the response is not looked at
MayClaim_AnyResponse(p) == ~stop_event

\* line 116: the test that lets a prober claim the result
MayClaim(p) == presp[p] # <<>> /\ ~stop_event

\* line 116: if response and not stop_event.is_set():
ProbeCheck(p) ==
    /\ ppc[p] = "check"
    /\ ppc' = [ppc EXCEPT ![p] = IF MayClaim(p) THEN "setfound" ELSE "close"]
    /\ UNCHANGED <<mgrVars, dpc, ports, idx, result, stop_event, presp,
                   pser, foundLog, parse>>

\* line 118: result["found"] = port.device
ProbeSetFound(p) ==
    /\ ppc[p] = "setfound"
    /\ result' = p
    /\ foundLog' = Append(foundLog, p)
    /\ ppc' = [ppc EXCEPT ![p] = "setstop"]
    /\ UNCHANGED <<mgrVars, dpc, ports, idx, stop_event, presp, pser, parse>>

\* line 119: stop_event.set()
ProbeSetStop(p) ==
    /\ ppc[p] = "setstop"
    /\ stop_event' = TRUE
    /\ ppc' = [ppc EXCEPT ![p] = "close"]
    /\ UNCHANGED <<mgrVars, dpc, ports, idx, result, presp, pser,
                   foundLog, parse>>

\* line 120: ser.close(), then the function returns
ProbeClose(p) ==
    /\ ppc[p] = "close"
    /\ pser' = [pser EXCEPT ![p] = "closed"]
    /\ ppc' = [ppc EXCEPT ![p] = "done"]
    /\ UNCHANGED <<mgrVars, dpc, ports, idx, result, stop_event, presp,
                   foundLog, parse>>

ProbeStep(p) ==
    \/ ProbeEntry(p)
    \/ ProbeOpen(p)
    \/ ProbeWrite(p)
    \/ ProbeRead(p)
    \/ ProbeCheck(p)
    \/ ProbeSetFound(p)
    \/ ProbeSetStop(p)
    \/ ProbeClose(p)

\* ------------------------- find_obd_port_multithreaded (lines 124-135)
\* lines 125-128: ports = comports(); threads = []; result = {"found": None};
\* stop_event = threading.Event().  With no port both loops are empty.
DiscStart(n) ==
    /\ ports' = n
    /\ idx' = IF n = 0 THEN 0 ELSE 1
    /\ dpc' = IF n = 0 THEN "ret" ELSE "spawn"
    /\ result' = None
    /\ stop_event' = FALSE
    /\ ppc' = [p \in Ports |-> "unstarted"]
    /\ presp' = [p \in Ports |-> <<>>]
    /\ pser' = [p \in Ports |-> "unbound"]
    /\ foundLog' = <<>>

\* lines 129-132: one thread per port, started in order
DiscSpawn ==
    /\ dpc = "spawn"
    /\ ppc' = [ppc EXCEPT ![idx] = "entry"]
    /\ IF idx = ports
       THEN dpc' = "join" /\ idx' = 1
       ELSE dpc' = dpc /\ idx' = idx + 1
    /\ UNCHANGED <<mgrVars, ports, result, stop_event, presp, pser,
                   foundLog, parse>>

\* faulty variant: join does not wait
Joined_NoWait(p) == TRUE

\* thread.join() returns once that thread has finished
Joined(p) == ppc[p] = "done"

\* lines 133-134: for thread in threads: thread.join()
DiscJoin ==
    /\ dpc = "join"
    /\ Joined(idx)
    /\ IF idx = ports
       THEN dpc' = "ret" /\ idx' = 0
       ELSE dpc' = dpc /\ idx' = idx + 1
    /\ UNCHANGED <<mgrVars, ports, result, stop_event, ppc, presp,
                   pser, foundLog, parse>>

\* The call of find_obd_port_multithreaded made directly by a client of the
\* module, and its return (line 135).
DirectCall ==
    /\ dpc = "idle"
    /\ \E n \in 0..MaxPorts : DiscStart(n)
    /\ UNCHANGED <<mgrVars, parse>>

DirectReturn ==
    /\ dpc = "ret"
    /\ dpc' = "idle"
    /\ UNCHANGED <<mgrVars, ports, idx, result, stop_event, ppc, presp,
                   pser, foundLog, parse>>

\* No manager: the module's finder is used on its own.
DiscInit ==
    /\ keep_running = FALSE
    /\ serial_connection = None
    /\ obd_port = None
    /\ lock = None
    /\ sessOpen = {}
    /\ supPc = "absent"
    /\ supTmp = None
    /\ closePc = "idle"
    /\ pc = [c \in Callers |-> "idle"]
    /\ ret = [c \in Callers |-> NoRet]
    /\ faulted = FALSE
    /\ closedOnce = FALSE
    /\ parse = NoParse
    /\ DiscIdle

DiscNext ==
    \/ DirectCall
    \/ DiscSpawn
    \/ DiscJoin
    \/ DirectReturn
    \/ \E p \in Ports : ProbeStep(p)

DiscSpec == DiscInit /\ [][DiscNext]_vars

\* Threads are scheduled fairly: a thread that can take its next step
\* eventually takes it.
DiscFairSpec ==
    /\ DiscSpec
    /\ WF_vars(DiscSpawn)
    /\ WF_vars(DiscJoin)
    /\ WF_vars(DirectReturn)
    /\ \A p \in Ports : WF_vars(ProbeStep(p))


\* ------------------------------------ send_command (lines 86-97)
\* serial_connection.is_open of the object the attribute refers to
IsOpen(h) == h \in sessOpen

\* Objects that can still be reached: a new Serial gets another identity.
FreshHandle ==
    CHOOSE h \in Handles :
        /\ h \notin sessOpen \cup {serial_connection, supTmp}
        /\ \A g \in Handles :
              g \notin sessOpen \cup {serial_connection, supTmp} => h <= g

\* The caller enters send_command and reaches "with self.lock".
SendCall(c) ==
    /\ pc[c] \in {"idle", "done", "raised"}
    /\ pc' = [pc EXCEPT ![c] = "lock"]
    /\ ret' = [ret EXCEPT ![c] = NoRet]
    /\ UNCHANGED <<keep_running, serial_connection, obd_port, lock, sessOpen,
                   supPc, supTmp, closePc, discVars, faulted, closedOnce, parse>>

\* faulty variant: send_command without the lock
LockFree_NoLock == TRUE

\* line 87: the lock can be taken only when no caller holds it
LockFree == lock = None

\* line 87: with self.lock (acquire)
SendAcquire(c) ==
    /\ pc[c] = "lock"
    /\ LockFree
    /\ lock' = c
    /\ pc' = [pc EXCEPT ![c] = "check1"]
    /\ UNCHANGED <<keep_running, serial_connection, obd_port, sessOpen, supPc,
                   supTmp, closePc, ret, discVars, faulted, closedOnce, parse>>

\* line 97, leaving the with block: return the sentinel, release the lock
ReturnSentinel(c) ==
    /\ pc' = [pc EXCEPT ![c] = "done"]
    /\ ret' = [ret EXCEPT ![c] = Sentinel]
    /\ lock' = None

\* faulty variant: send_command waits until a Session is there
SendCheck1_WaitForSession(c) ==
    /\ pc[c] = "check1"
    /\ serial_connection # None
    /\ pc' = [pc EXCEPT ![c] = "check2"]
    /\ UNCHANGED <<keep_running, serial_connection, obd_port, sessOpen, supPc,
                   supTmp, closePc, discVars,
                   faulted, closedOnce, ret, lock, parse>>

\* line 88, left operand: self.serial_connection
SendCheck1(c) ==
    /\ pc[c] = "check1"
    /\ IF serial_connection = None
       THEN ReturnSentinel(c)
       ELSE /\ pc' = [pc EXCEPT ![c] = "check2"]
            /\ UNCHANGED <<ret, lock>>
    /\ UNCHANGED <<keep_running, serial_connection, obd_port, sessOpen, supPc,
                   supTmp, closePc, discVars, faulted, closedOnce, parse>>

\* faulty variant: the condition of line 88 without its is_open operand
SendCheck2_SkipOpenTest(c) ==
    /\ pc[c] = "check2"
    /\ IF serial_connection = None
       THEN /\ pc' = [pc EXCEPT ![c] = "raised"]
            /\ lock' = None
            /\ ret' = ret
       ELSE /\ pc' = [pc EXCEPT ![c] = "write"]
            /\ UNCHANGED <<ret, lock>>
    /\ UNCHANGED <<keep_running, serial_connection, obd_port, sessOpen, supPc,
                   supTmp, closePc, discVars, faulted, closedOnce, parse>>

\* line 88, right operand: self.serial_connection.is_open.  The attribute is
\* read again; it is outside the try, so None here raises out of the call.
SendCheck2(c) ==
    /\ pc[c] = "check2"
    /\ IF serial_connection = None
       THEN /\ pc' = [pc EXCEPT ![c] = "raised"]
            /\ lock' = None
            /\ ret' = ret
       ELSE IF IsOpen(serial_connection)
            THEN /\ pc' = [pc EXCEPT ![c] = "write"]
                 /\ UNCHANGED <<ret, lock>>
            ELSE ReturnSentinel(c)
    /\ UNCHANGED <<keep_running, serial_connection, obd_port, sessOpen, supPc,
                   supTmp, closePc, discVars, faulted, closedOnce, parse>>

\* lines 90-91: self.serial_connection.write(...); time.sleep(1).  The
\* write raises when the transport faults, and always on a closed port
\* (PortNotOpenError) or on None (AttributeError).
SendWrite(c) ==
    /\ pc[c] = "write"
    /\ \/ /\ serial_connection # None
          /\ IsOpen(serial_connection)
          /\ pc' = [pc EXCEPT ![c] = "read"]
          /\ faulted' = faulted
       \/ /\ pc' = [pc EXCEPT ![c] = "except"]
          /\ faulted' = TRUE
    /\ UNCHANGED <<keep_running, serial_connection, obd_port, lock, sessOpen,
                   supPc, supTmp, closePc, ret, discVars, closedOnce, parse>>

\* lines 92-93: response = self.serial_connection.read_all()...strip();
\* return response (the lock is released).  The read raises like the write.
SendRead(c) ==
    /\ pc[c] = "read"
    /\ \/ /\ serial_connection # None
          /\ IsOpen(serial_connection)
          /\ \E raw \in RawSet :
                ret' = [ret EXCEPT ![c] = Response(ReadText(raw))]
          /\ pc' = [pc EXCEPT ![c] = "done"]
          /\ lock' = None
          /\ faulted' = faulted
       \/ /\ pc' = [pc EXCEPT ![c] = "except"]
          /\ faulted' = TRUE
          /\ UNCHANGED <<ret, lock>>
    /\ UNCHANGED <<keep_running, serial_connection, obd_port, sessOpen, supPc,
                   supTmp, closePc, discVars, closedOnce, parse>>

\* Serial objects that are open and that nothing refers to any more
Leaked == sessOpen \ {serial_connection, supTmp}

\* The Serial objects still open once the manager drops its reference to
\* h: the code does not close h, the runtime may finalize it.  At most
\* MaxLeaked dropped objects stay open; beyond that they are finalized.
AfterDrop(h) ==
    IF Cardinality(Leaked) < MaxLeaked
    THEN { sessOpen, sessOpen \ {h} }
    ELSE { sessOpen \ {h} }

\* faulty variant: the except handler keeps the Session
SendExcept_KeepSession(c) ==
    /\ pc[c] = "except"
    /\ ReturnSentinel(c)
    /\ UNCHANGED <<keep_running, serial_connection, sessOpen, obd_port, supPc,
                   supTmp, closePc, discVars, faulted, closedOnce, parse>>

\* lines 94-97: except Exception: self.serial_connection = None, then the
\* sentinel is returned
SendExcept(c) ==
    /\ pc[c] = "except"
    /\ serial_connection' = None
    /\ \E open \in AfterDrop(serial_connection) : sessOpen' = open
    /\ ReturnSentinel(c)
    /\ UNCHANGED <<keep_running, obd_port, supPc, supTmp, closePc, discVars,
                   faulted, closedOnce, parse>>

SendStep(c) ==
    \/ SendAcquire(c)
    \/ SendCheck1(c)
    \/ SendCheck2(c)
    \/ SendWrite(c)
    \/ SendRead(c)
    \/ SendExcept(c)


\* --------------------------- _maintain_connection (lines 70-84)
\* line 71: while self.keep_running
SupWhile ==
    /\ supPc = "while"
    /\ supPc' = IF keep_running THEN "cond1" ELSE "done"
    /\ UNCHANGED <<keep_running, serial_connection, obd_port, lock, sessOpen,
                   supTmp, closePc, pc, ret, discVars, faulted, closedOnce, parse>>

\* faulty variant: a new round is started whatever the Session's state
SupCond1_AlwaysFind ==
    /\ supPc = "cond1"
    /\ supPc' = "find"
    /\ UNCHANGED <<keep_running, serial_connection, obd_port, lock, sessOpen,
                   supTmp, closePc, pc, ret, discVars, faulted, closedOnce, parse>>

\* line 72, left operand: self.serial_connection is None
SupCond1 ==
    /\ supPc = "cond1"
    /\ supPc' = IF serial_connection = None THEN "find" ELSE "cond2"
    /\ UNCHANGED <<keep_running, serial_connection, obd_port, lock, sessOpen,
                   supTmp, closePc, pc, ret, discVars, faulted, closedOnce, parse>>

\* Where line 72's right operand leads: the attribute is read a second
\* time, and None has no is_open (AttributeError ends the thread).
AfterCond2 ==
    IF serial_connection = None THEN "crashed"
    ELSE IF IsOpen(serial_connection) THEN "sleep" ELSE "find"

\* line 72, right operand: not self.serial_connection.is_open
SupCond2 ==
    /\ supPc = "cond2"
    /\ supPc' = AfterCond2
    /\ UNCHANGED <<keep_running, serial_connection, obd_port, lock, sessOpen,
                   supTmp, closePc, pc, ret, discVars, faulted, closedOnce, parse>>

\* line 74: the call of find_obd_port_multithreaded
SupFind ==
    /\ supPc = "find"
    /\ dpc = "idle"
    /\ \E n \in 0..MaxMgrPorts : DiscStart(n)
    /\ UNCHANGED <<mgrVars, parse>>

\* lines 74-75 and 82-83: self.obd_port = <the value returned>; if self.obd_port
SupReturn ==
    /\ supPc = "find"
    /\ dpc = "ret"
    /\ dpc' = "idle"
    /\ obd_port' = result
    /\ supPc' = IF result # None THEN "open" ELSE "sleep"
    /\ UNCHANGED <<keep_running, serial_connection, lock, sessOpen, supTmp,
                   closePc, pc, ret, ports, idx,
                   result, stop_event, ppc, presp, pser, foundLog, faulted, closedOnce, parse>>

\* line 77, right-hand side: serial.Serial(self.obd_port, ...) opens the port
\* or raises SerialException
SupOpen ==
    /\ supPc = "open"
    /\ \E ok \in BOOLEAN :
        IF ok
        THEN /\ supTmp' = FreshHandle
             /\ sessOpen' = sessOpen \cup {FreshHandle}
             /\ supPc' = "assign"
        ELSE /\ supPc' = "openfail"
             /\ UNCHANGED <<supTmp, sessOpen>>
    /\ UNCHANGED <<keep_running, serial_connection, obd_port, lock, closePc, pc, ret, discVars, faulted, closedOnce, parse>>

\* line 77, the assignment: self.serial_connection = <the new Serial>
SupAssign ==
    /\ supPc = "assign"
    /\ serial_connection' = supTmp
    /\ supTmp' = None
    /\ supPc' = "sleep"
    /\ faulted' = FALSE
    /\ UNCHANGED <<keep_running, obd_port, lock, sessOpen, closePc,
                   pc, ret, discVars, closedOnce, parse>>

\* lines 79-81: except serial.SerialException: self.serial_connection = None
SupOpenFail ==
    /\ supPc = "openfail"
    /\ serial_connection' = None
    /\ \E open \in AfterDrop(serial_connection) : sessOpen' = open
    /\ supPc' = "sleep"
    /\ UNCHANGED <<keep_running, obd_port, lock, supTmp, closePc,
                   pc, ret, discVars, faulted, closedOnce, parse>>

\* line 84: time.sleep(5)
SupSleep ==
    /\ supPc = "sleep"
    /\ supPc' = "while"
    /\ UNCHANGED <<keep_running, serial_connection, obd_port, lock, sessOpen,
                   supTmp, closePc, pc, ret, discVars, faulted, closedOnce, parse>>

\* the steps the background thread takes itself, those inside
\* find_obd_port_multithreaded included
SupStep ==
    \/ SupWhile
    \/ SupCond1
    \/ SupCond2
    \/ SupFind
    \/ DiscSpawn
    \/ DiscJoin
    \/ SupReturn
    \/ SupOpen
    \/ SupAssign
    \/ SupOpenFail
    \/ SupSleep

\* ------------------------------------------ close (lines 99-104)
\* self.connection_thread.is_alive()
ThreadAlive == supPc \notin {"done", "crashed"}

\* close() is entered
CloseCall ==
    /\ closePc \in {"idle", "returned", "raised"}
    /\ closePc' = "flag"
    /\ UNCHANGED <<keep_running, serial_connection, obd_port, lock, sessOpen,
                   supPc, supTmp, pc, ret, discVars, faulted, closedOnce, parse>>

\* line 100: self.keep_running = False
CloseFlag ==
    /\ closePc = "flag"
    /\ keep_running' = FALSE
    /\ closePc' = "alive"
    /\ UNCHANGED <<serial_connection, obd_port, lock, sessOpen, supPc, supTmp, pc, ret, discVars, faulted, closedOnce, parse>>

\* line 101: if self.connection_thread.is_alive()
CloseAlive ==
    /\ closePc = "alive"
    /\ closePc' = IF ThreadAlive THEN "join" ELSE "check1"
    /\ UNCHANGED <<keep_running, serial_connection, obd_port, lock, sessOpen,
                   supPc, supTmp, pc, ret, discVars, faulted, closedOnce, parse>>

\* faulty variant: close does not wait for the thread
CloseJoin_NoWait ==
    /\ closePc = "join"
    /\ closePc' = "check1"
    /\ UNCHANGED <<keep_running, serial_connection, obd_port, lock, sessOpen,
                   supPc, supTmp, pc, ret, discVars,
                   faulted, closedOnce, parse>>

\* line 102: self.connection_thread.join() returns once the thread has ended
CloseJoin ==
    /\ closePc = "join"
    /\ ~ThreadAlive
    /\ closePc' = "check1"
    /\ UNCHANGED <<keep_running, serial_connection, obd_port, lock, sessOpen,
                   supPc, supTmp, pc, ret, discVars, faulted, closedOnce, parse>>

\* line 103, left operand: self.serial_connection
CloseCheck1 ==
    /\ closePc = "check1"
    /\ closePc' = IF serial_connection = None THEN "returned" ELSE "check2"
    /\ UNCHANGED <<keep_running, serial_connection, obd_port, lock, sessOpen,
                   supPc, supTmp, pc, ret, discVars, faulted, parse>>
    /\ closedOnce' = (closedOnce \/ closePc' = "returned")

\* line 103, right operand: self.serial_connection.is_open (read again)
CloseCheck2 ==
    /\ closePc = "check2"
    /\ closePc' = IF serial_connection = None THEN "raised"
                  ELSE IF IsOpen(serial_connection) THEN "closing"
                  ELSE "returned"
    /\ UNCHANGED <<keep_running, serial_connection, obd_port, lock, sessOpen,
                   supPc, supTmp, pc, ret, discVars, faulted, parse>>
    /\ closedOnce' = (closedOnce \/ closePc' = "returned")

\* line 104: self.serial_connection.close() (read a third time)
CloseSerial ==
    /\ closePc = "closing"
    /\ IF serial_connection = None
       THEN closePc' = "raised" /\ sessOpen' = sessOpen
       ELSE closePc' = "returned" /\ sessOpen' = sessOpen \ {serial_connection}
    /\ UNCHANGED <<keep_running, serial_connection, obd_port, lock, supPc,
                   supTmp, pc, ret, discVars, faulted, parse>>
    /\ closedOnce' = (closedOnce \/ closePc' = "returned")

CloseStep ==
    \/ CloseFlag
    \/ CloseAlive
    \/ CloseJoin
    \/ CloseCheck1
    \/ CloseCheck2
    \/ CloseSerial


\* ------------------------------------------- calls of parse_obd_response
\* The pids of lines 25, 34 and 41, and one the function does not know.
Pids == {"010C", "010D", "0105", "0111"}

\* Tokens of a response: the mode and pid echo, data bytes, and tokens that
\* are not two hexadecimal digits.
Tokens == { <<"4", "1">>, <<"0", "C">>, <<"0", "D">>, <<"0", "5">>,
            <<"1", "A">>, <<"F", "8">>, <<"7", "B">>,
            <<"1", "F", "F">>, <<"-", "5">>, <<"0", "x", "1", "A">>,
            <<"G", "1">> }

\* How an adapter lays the tokens out: single spaces; carriage returns and
\* line feeds around and between; carriage returns alone between tokens.
Layouts == { [lead |-> <<>>, sep |-> <<SP>>, trail |-> <<>>],
             [lead |-> <<CR>>, sep |-> <<SP, CR>>, trail |-> <<SP, CR, LF>>],
             [lead |-> <<>>, sep |-> <<CR>>, trail |-> <<CR>>] }

RECURSIVE Join(_, _)
Join(toks, sep) ==
    IF toks = <<>> THEN <<>>
    ELSE IF Len(toks) = 1 THEN toks[1]
    ELSE toks[1] \o sep \o Join(Tail(toks), sep)

Responses ==
    { lay.lead \o Join(toks, lay.sep) \o lay.trail :
        toks \in UNION { [1..n -> Tokens] : n \in 0..MaxTokens },
        lay \in Layouts }

\* a caller is about to call parse_obd_response(pid, response)
ParseInit ==
    /\ keep_running = FALSE
    /\ serial_connection = None
    /\ obd_port = None
    /\ lock = None
    /\ sessOpen = {}
    /\ supPc = "absent"
    /\ supTmp = None
    /\ closePc = "idle"
    /\ pc = [c \in Callers |-> "idle"]
    /\ ret = [c \in Callers |-> NoRet]
    /\ faulted = FALSE
    /\ closedOnce = FALSE
    /\ DiscIdle
    /\ \E pid \in Pids, response \in Responses :
        parse = [pid |-> pid, response |-> response,
                 result |-> NoResult, pc |-> "called"]

\* lines 10-56: the call runs and returns its dict
Parse ==
    /\ parse.pc = "called"
    /\ parse' = [parse EXCEPT
                    !.result = parse_obd_response(parse.pid, parse.response),
                    !.pc = "returned"]
    /\ UNCHANGED <<mgrVars, discVars>>

ParseSpec == ParseInit /\ [][Parse]_vars

\* ------------------------------------------------------------ the program
Next ==
    \/ SupStep
    \/ \E p \in Ports : ProbeStep(p)
    \/ \E c \in Callers : SendCall(c) \/ SendStep(c)
    \/ CloseCall
    \/ CloseStep

Spec == Init /\ [][Next]_vars

\* Threads are scheduled fairly: a thread that can take its next step
\* eventually takes it.  Entering send_command or close is the client's
\* choice and is not forced.
FairSpec ==
    /\ Spec
    /\ WF_vars(SupStep)
    /\ \A p \in Ports : WF_vars(ProbeStep(p))
    /\ \A c \in Callers : WF_vars(SendStep(c))
    /\ WF_vars(CloseStep)


\* =================================================================== claims
Launched == 1..ports

\* the probers whose read returned a non-empty response in this round
Responsive == { p \in Launched : presp[p] # <<>> }

\* C3: find_obd_port_multithreaded terminates for every number of
\* candidate endpoints; when it is about to return, every launched
\* test_port thread has finished; with no candidate it goes straight to
\* returning None, with nothing launched and nothing to join.
C3_DiscoveryTerminates ==
    /\ [](dpc = "ret" => \A p \in Launched : ppc[p] = "done")
    /\ (dpc \in {"spawn", "join"}) ~> (dpc = "ret")
    /\ [][dpc = "idle" /\ dpc' # "idle" /\ ports' = 0
            => dpc' = "ret" /\ result' = None
               /\ \A p \in Ports : ppc'[p] = "unstarted"]_vars

C3_Witness ==
    /\ dpc = "ret"
    /\ ports = MaxPorts
    /\ result # None
    /\ \E p \in Launched : p # result /\ ppc[p] = "done" /\ pser[p] = "closed"

\* C4: the value find_obd_port_multithreaded returns is None or an
\* endpoint whose prober read a non-empty response in this round, and it
\* is None exactly when no prober read a non-empty response; so a single
\* responsive candidate is the one returned.
C4_ReturnsResponsive ==
    dpc = "ret" =>
        /\ result # None => result \in Responsive
        /\ result = None <=> Responsive = {}
        /\ \A p \in Launched : Responsive = {p} => result = p

C4_Witness ==
    /\ dpc = "ret"
    /\ ports = MaxPorts
    /\ Cardinality(Responsive) = 1
    /\ result \in Responsive
    /\ \A p \in Launched : ppc[p] = "done" /\ pser[p] # "unbound"

\* C5: within one round result["found"] is written at most once, and the
\* endpoint returned is the one the first writer stored.
C5_SingleWinner ==
    /\ Len(foundLog) <= 1
    /\ dpc = "ret" /\ foundLog # <<>> => result = foundLog[1]

\* C6: a transport handle test_port opened is closed by the time that
\* test_port call has returned, on every exit path.
C6_ProbeHandleClosed ==
    \A p \in Ports : ppc[p] = "done" => pser[p] # "open"


\* ------------------------------------------------- claims on the manager
\* Disconnected: no Session, or the Session is closed
Disconnected == serial_connection = None \/ ~IsOpen(serial_connection)

\* the caller is past "with self.lock" and has not returned
InCall(c) == pc[c] \in {"check1", "check2", "write", "read", "except"}

\* C1: at most one send_command call is at its transport write or between
\* its transport write and its transport read, however many threads call.
C1_OneCommandInFlight ==
    Cardinality({ c \in Callers : pc[c] \in {"write", "read"} }) <= 1

C1_Witness ==
    \E c, d \in Callers :
        /\ c # d
        /\ pc[c] = "read"
        /\ pc[d] = "lock"


\* C2: a fault raised by the transport write or read of a send_command
\* call is not propagated: that call returns the sentinel and clears the
\* Session; from the fault until the background thread stores a newly
\* opened Serial, no call performs a transport write or read and every
\* call that returns, returns the sentinel.
C2_SentinelUntilRebuilt ==
    /\ [][\A c \in Callers :
            pc[c] = "except" /\ pc'[c] # "except"
                => /\ pc'[c] = "done"
                   /\ ret'[c] = Sentinel
                   /\ serial_connection' = None]_vars
    /\ [][\A c \in Callers :
            faulted /\ faulted' /\ pc'[c] # pc[c]
                => /\ pc[c] \notin {"write", "read"}
                   /\ pc'[c] \notin {"write", "read", "raised"}
                   /\ pc'[c] = "done" => ret'[c] = Sentinel]_vars
    /\ [][faulted /\ ~faulted'
            => /\ supPc = "assign"
               /\ serial_connection' = supTmp
               /\ IsOpen(serial_connection')
               /\ serial_connection' # serial_connection]_vars

\* a call faulted on an open Session and returned the sentinel; d, which
\* took the lock after that, is at its check while the background thread
\* has not yet installed the Session it is rebuilding
C2_Witness ==
    \E c, d \in Callers :
        /\ c # d
        /\ faulted
        /\ Leaked # {}
        /\ pc[c] = "done" /\ ret[c] = Sentinel
        /\ pc[d] = "check1"
        /\ supPc \in {"find", "open", "assign"}

\* C7: at any time at most one transport handle opened for a Session is
\* open.
C7_OneSessionHandle == Cardinality(sessOpen) <= 1

\* the background thread is inside a discovery round
Discovering == supPc = "find"

\* C8: while shutdown has not been requested and the manager has no live
\* Session, the background thread starts a discovery round again.
C8_RetriesForever ==
    (keep_running /\ Disconnected)
        ~> (Discovering \/ ~keep_running \/ ~Disconnected)

\* C9: when there is no open Session, send_command returns the sentinel
\* without a transport write or read, and none of its steps waits for the
\* background thread: a caller that holds the lock can always take its
\* next step and a caller at the lock can take it as soon as it is free,
\* also while a discovery round is in progress.
C9_SentinelWithoutWaiting ==
    /\ [][\A c \in Callers :
            Disconnected /\ pc[c] \in {"check1", "check2"} /\ pc'[c] # pc[c]
                => \/ pc[c] = "check1" /\ pc'[c] = "check2"
                   \/ pc'[c] = "done" /\ ret'[c] = Sentinel]_vars
    /\ [](\A c \in Callers :
            /\ InCall(c) => ENABLED SendStep(c)
            /\ pc[c] = "lock" /\ lock = None => ENABLED SendAcquire(c))

C9_Witness ==
    \E c, d \in Callers :
        /\ c # d
        /\ pc[c] = "done" /\ ret[c] = Sentinel
        /\ pc[d] = "check1"
        /\ Disconnected
        /\ dpc = "join"
        /\ \E p \in Launched : ppc[p] = "read"

\* close() has been entered and has neither returned nor raised
Closing == closePc \in {"flag", "alive", "join", "check1", "check2", "closing"}

\* the background thread has ended
LoopStopped == supPc \in {"done", "crashed"}

\* C10: close() terminates; once it has returned the background thread
\* has ended, takes no further step (no discovery, no open), and the
\* Session the manager holds, if any, is closed.
C10_CloseStopsLoop ==
    /\ Closing ~> (closePc \in {"returned", "raised"})
    /\ [](closePc = "returned"
            => /\ LoopStopped
               /\ dpc = "idle"
               /\ serial_connection # None => ~IsOpen(serial_connection))
    /\ [][closePc = "returned"
            => /\ supPc' = supPc
               /\ discVars' = discVars
               /\ sessOpen' \subseteq sessOpen]_vars

\* close() was entered, waited for a thread that had opened a Session,
\* and closed that Session
C10_Witness ==
    /\ closePc = "returned"
    /\ supPc = "done"
    /\ serial_connection # None
    /\ ~IsOpen(serial_connection)


\* C16: the background thread stops only after shutdown has been
\* requested: it never ends on an unhandled fault, and when it has ended
\* keep_running is False.
C16_LoopEndsOnlyOnShutdown ==
    /\ supPc # "crashed"
    /\ LoopStopped => ~keep_running

\* C17: the Session's transport is never closed while a send_command call
\* is in flight on it: a caller between its write and its read still has
\* an open Session.
C17_NoCloseInFlight ==
    \A c \in Callers :
        pc[c] = "read" => serial_connection # None /\ IsOpen(serial_connection)

\* Connected: a Session is present and open
Connected == ~Disconnected

\* C19: while Connected the background thread starts no discovery round,
\* opens nothing and does not replace or clear the Session (only the
\* except handler of send_command or close() changes it); a round is
\* started only when the Session is absent or closed; after a failed open
\* there is no Session.
C19_IdleWhileConnected ==
    /\ [](Connected
            => /\ supPc \in {"while", "cond1", "cond2", "sleep", "done", "crashed"}
               /\ dpc = "idle"
               /\ supTmp = None)
    /\ [][Connected /\ serial_connection' # serial_connection
            => \E c \in Callers : pc[c] = "except" /\ pc'[c] = "done"]_vars
    /\ [][Connected /\ sessOpen' # sessOpen
            => \/ \E c \in Callers : pc[c] = "except" /\ pc'[c] = "done"
               \/ closePc = "closing" /\ closePc' = "returned"]_vars
    /\ [][dpc = "idle" /\ dpc' # "idle" => Disconnected]_vars
    /\ [][supPc = "openfail" /\ supPc' # "openfail"
            => serial_connection' = None /\ supPc' = "sleep"]_vars

\* the thread looks at a live Session and goes to sleep
C19_Witness ==
    /\ Connected
    /\ supPc = "sleep"
    /\ obd_port # None
    /\ \E c \in Callers : ret[c].tag = "response"


\* C11: once a close() call has returned, no later close() call ends on a
\* fault, and the manager stays as the first call left it: keep_running
\* False, the background thread ended, the Session absent or closed.
C11_CloseIdempotent ==
    closedOnce => /\ closePc # "raised"
                  /\ ~keep_running
                  /\ LoopStopped
                  /\ Disconnected

\* C18: a call reaches the write of line 90 only from the check of line 88,
\* holding the lock, with a Session present and open; once a close() call
\* has returned, no call reaches the write or completes a write or a read,
\* none raises, and every call that returns yields the sentinel.
C18_WriteOnlyWhenOpen ==
    /\ [][\A c \in Callers :
            pc[c] # "write" /\ pc'[c] = "write"
                => /\ pc[c] = "check2"
                   /\ lock = c
                   /\ serial_connection # None
                   /\ IsOpen(serial_connection)]_vars
    /\ [][\A c \in Callers :
            closedOnce /\ pc'[c] # pc[c]
                => /\ pc'[c] \notin {"write", "read", "raised"}
                   /\ pc'[c] = "done" => ret'[c] = Sentinel]_vars

\* after close() has returned with the Session closed, a call has come back
\* with the sentinel while an earlier call had been answered
C18_Witness ==
    /\ closePc = "returned"
    /\ serial_connection # None
    /\ ~IsOpen(serial_connection)
    /\ \E c, d \in Callers :
        /\ pc[c] = "done" /\ ret[c] = Sentinel
        /\ pc[d] = "done" /\ ret[d].tag = "response"


\* ------------------------------------------------------ parser claims
\* the call has returned
Returned == parse.pc = "returned"

\* the tokens of the response text: line endings stripped, split on
\* whitespace
TokensOf(response) == Split(Normalise(response))

\* a data byte as the specification writes it: exactly two hex digits
IsByte(tok) == Len(tok) = 2 /\ IsHexDigit(tok[1]) /\ IsHexDigit(tok[2])
ByteVal(tok) == (DigitVal(tok[1]) * 16) + DigitVal(tok[2])

\* C12: parse_obd_response yields a dict for every pid and response (the
\* one it was called with), and in the dict a call returns error is set
\* exactly when value is not set.
C12_ValueXorError ==
    /\ parse.pc = "called"
        => LET r == parse_obd_response(parse.pid, parse.response)
           IN  r.pid = parse.pid /\ r.raw_response = parse.response
    /\ Returned => /\ parse.result.error.tag \in {"None", "str"}
                   /\ parse.result.value.tag \in {"None", "str"}
                   /\ (parse.result.error # Unset) <=> (parse.result.value = Unset)

\* a data token failed the hex conversion and the dict holds an error only
C12_Witness ==
    /\ Returned
    /\ parse.pid = "010D"
    /\ TokensOf(parse.response) = << <<"4", "1">>, <<"0", "D">>, <<"G", "1">> >>
    /\ parse.result.value = Unset
    /\ parse.result.error # Unset

\* C13: for pid 010C, at least four tokens, token[1] = 0C and two bytes A
\* and B as token[2] and token[3], the dict holds no error and the value
\* (A*256+B)/4 RPM.
C13_RpmValue ==
    LET toks == TokensOf(parse.response) IN
    (/\ Returned
     /\ parse.pid = "010C"
     /\ Len(toks) >= 4
     /\ toks[2] = <<"0", "C">>
     /\ IsByte(toks[3])
     /\ IsByte(toks[4]))
        => /\ parse.result.error = Unset
           /\ parse.result.value =
                Str(QuarterStr((ByteVal(toks[3]) * 256) + ByteVal(toks[4]))
                    \o <<" ", "R", "P", "M">>)

\* 41 0C 1A F8 gives 1726.0 RPM
C13_Witness ==
    /\ Returned
    /\ parse.pid = "010C"
    /\ TokensOf(parse.response)
          = << <<"4", "1">>, <<"0", "C">>, <<"1", "A">>, <<"F", "8">> >>
    /\ parse.result.value.text
          = <<"1", "7", "2", "6", ".", "0", " ", "R", "P", "M">>

\* C14: for pid 0105, at least three tokens, token[1] = 05 and a byte D as
\* token[2], the dict holds no error and the value D - 40 degrees C, which
\* is negative for D < 40.
C14_CoolantValue ==
    LET toks == TokensOf(parse.response) IN
    (/\ Returned
     /\ parse.pid = "0105"
     /\ Len(toks) >= 3
     /\ toks[2] = <<"0", "5">>
     /\ IsByte(toks[3]))
        => /\ parse.result.error = Unset
           /\ parse.result.value =
                Str(IntStr(ByteVal(toks[3]) - 40) \o <<" ", "°", "C">>)
           /\ ByteVal(toks[3]) < 40 => Head(parse.result.value.text) = "-"

\* 41 05 7B gives 83 degrees C
C14_Witness ==
    /\ Returned
    /\ parse.pid = "0105"
    /\ TokensOf(parse.response) = << <<"4", "1">>, <<"0", "5">>, <<"7", "B">> >>
    /\ parse.result.value.text = <<"8", "3", " ", "°", "C">>

\* C15: for a pid other than 010C, 010D and 0105 the dict holds no value
\* and an error whose text names the pid, whatever the response.
C15_UnsupportedPid ==
    (Returned /\ parse.pid \notin {"010C", "010D", "0105"})
        => /\ parse.result.value = Unset
           /\ parse.result.error.tag = "str"
           /\ \E i \in DOMAIN parse.result.error.text :
                parse.result.error.text[i] = parse.pid

\* an unknown pid with a response that is well formed for the speed pid
C15_Witness ==
    /\ Returned
    /\ parse.pid = "0111"
    /\ TokensOf(parse.response) = << <<"4", "1">>, <<"0", "D">>, <<"1", "A">> >>
    /\ parse.result.error # Unset

\* C20: a value is produced only from data tokens of exactly two hex
\* digits, so a speed lies in 0..255 and a coolant temperature in -40..215.
C20_ValueOnlyFromBytes ==
    LET toks == TokensOf(parse.response) IN
    (Returned /\ parse.result.value # Unset)
        => /\ IsByte(toks[3])
           /\ parse.pid = "010C" => IsByte(toks[4])
           /\ parse.pid = "010D"
                => \E n \in 0..255 :
                     parse.result.value.text = IntStr(n) \o <<" ", "k", "m", "/", "h">>
           /\ parse.pid = "0105"
                => \E n \in (0 - 40)..215 :
                     parse.result.value.text = IntStr(n) \o <<" ", "°", "C">>

====
